---- MODULE Spec2Model ----
(***************************************************************************)
(* ClassMate API: course rooms, memberships, contact requests, connections *)
(* and the contact-visibility resolver of the room detail endpoint.        *)
(*                                                                         *)
(* The store is the Postgres schema of supabase/migrations (tables, unique *)
(* constraints, the member_count trigger, the SQL functions are_connected  *)
(* and can_request_contact).  Every route handler is a small state machine *)
(* whose steps are its store calls: a step is one awaited call together    *)
(* with the synchronous code that follows it.  The same step operators are *)
(* used twice: run to completion in one action (the sequential             *)
(* specifications) and one step at a time by concurrent requests (the      *)
(* concurrent specifications).                                             *)
(*                                                                         *)
(* Time is counted in units of 30 minutes.  Columns that never influence   *)
(* control flow (nickname, avatar, message, titles and texts of            *)
(* notifications, courses.code, created_at/joined_at) are left out.        *)
(***************************************************************************)
EXTENDS Integers, Sequences, FiniteSets, TLC

\* ------------------------------------------------------------------ bounds
MaxTime == 3
MaxRequests == 3       \* contact_requests rows ever inserted, taking turns
MaxRaceRequests == 2   \* ... and when handled concurrently

\* The registered users (uuids, ordered as Postgres orders them) and the
\* requests the server handles at the same time.
Users == {1, 2, 3}
Procs == {1, 2}
\* The two users whose contact requests are followed.
Pair == {1, 2}
NoUser == 0    \* no authenticated caller (currentUserId undefined)
NoId == 0      \* no row
NoTime == 0 - 1   \* a NULL timestamp
NULL == "null"    \* a NULL text column

\* INTERVAL '1 hour' of can_request_contact and 60 * 60 * 1000 ms of the room
\* detail handler, in units of 30 minutes.
Cooldown == 2

VARIABLES
  users,          \* public.users: user id -> profile row
  catalog,        \* public.rutgers_courses (read-only section cache)
  courses,        \* public.courses
  rooms,          \* public.course_rooms
  members,        \* public.room_members
  privacy,        \* public.room_privacy_settings
  requests,       \* public.contact_requests
  connections,    \* public.user_connections
  notifications,  \* public.notifications
  nextReqId,      \* uuid_generate_v4() of contact_requests, as a counter
  buckets,        \* the rate limiter's in-process map: key -> bucket
  llmCalls,       \* metrics.llmCalls, the counter of recordLlmCall
  faults,         \* the store calls that fail at present
  now,            \* wall clock (Date.now() and NOW())
  procs,          \* requests being handled concurrently: slot -> handler state
  resp            \* the last request handled to completion and its response

vars == <<users, catalog, courses, rooms, members, privacy, requests,
          connections, notifications, nextReqId, buckets, llmCalls, faults,
          now, procs, resp>>

tables == <<users, courses, rooms, members, privacy, requests, connections,
            notifications, nextReqId, buckets, llmCalls, faults>>

\* The store as one value, so that a handler step is a function of it.
DB ==
  [users |-> users, courses |-> courses, rooms |-> rooms, members |-> members,
   privacy |-> privacy, requests |-> requests, connections |-> connections,
   notifications |-> notifications, nextReqId |-> nextReqId,
   buckets |-> buckets, llmCalls |-> llmCalls, faults |-> faults]

Commit(d) ==
  /\ users' = d.users
  /\ courses' = d.courses
  /\ rooms' = d.rooms
  /\ members' = d.members
  /\ privacy' = d.privacy
  /\ requests' = d.requests
  /\ connections' = d.connections
  /\ notifications' = d.notifications
  /\ nextReqId' = d.nextReqId
  /\ buckets' = d.buckets
  /\ llmCalls' = d.llmCalls
  /\ faults' = d.faults

Idle == [op |-> "idle", pc |-> "idle"]

\* One outcome of a step: the handler's next state and the store after it.
Out(h, d) == {[h |-> h, db |-> d]}

\* return c.json(..., status)
Reply(h, code) == [h EXCEPT !.pc = "done", !.status = code]

\* ------------------------------------------------------------ notifications
\* supabase.from('notifications').insert(...): one more row.  Rows of equal
\* content are told apart by a running number n.
InsertNotification(d, user, type, data) ==
  LET same == {x \in d.notifications :
                 x.user_id = user /\ x.type = type /\ x.data = data}
  IN [d EXCEPT !.notifications = @ \cup
        {[n |-> Cardinality(same) + 1, user_id |-> user, type |-> type,
          data |-> data]}]

\* ------------------------------------------------------------ contact graph
\* public.are_connected(p_user_id_1, p_user_id_2)
are_connected(conns, p_user_id_1, p_user_id_2) ==
  LET a_id == IF p_user_id_1 < p_user_id_2 THEN p_user_id_1 ELSE p_user_id_2
      b_id == IF p_user_id_1 < p_user_id_2 THEN p_user_id_2 ELSE p_user_id_1
  IN \E c \in conns : c.user_id_1 = a_id /\ c.user_id_2 = b_id

\* SELECT ... WHERE requester_id = r AND target_user_id = t
\* ORDER BY created_at DESC LIMIT 1.  UNIQUE(requester_id, target_user_id)
\* leaves at most one such row, so the order never decides.
RequestRows(reqs, r, t) ==
  {q \in reqs : q.requester_id = r /\ q.target_user_id = t}

can_request_contact_nocooldown(d, t, p_requester_id, p_target_id) ==
  LET found == RequestRows(d.requests, p_requester_id, p_target_id)
  IN IF are_connected(d.connections, p_requester_id, p_target_id) THEN FALSE
     ELSE IF found = {} THEN TRUE
     ELSE LET last_request == CHOOSE q \in found : TRUE
          IN IF last_request.status = "pending" THEN FALSE
             ELSE last_request.status = "rejected"

can_request_contact_eitherway(d, t, p_requester_id, p_target_id) ==
  LET found == RequestRows(d.requests, p_requester_id, p_target_id)
               \cup RequestRows(d.requests, p_target_id, p_requester_id)
  IN IF are_connected(d.connections, p_requester_id, p_target_id) THEN FALSE
     ELSE IF found = {} THEN TRUE
     ELSE IF \E q \in found : q.status = "pending" THEN FALSE
     ELSE \A q \in found :
            q.status = "rejected" /\ q.responded_at < t - Cooldown

\* public.can_request_contact(p_requester_id, p_target_id) at time t
can_request_contact(d, t, p_requester_id, p_target_id) ==
  LET found == RequestRows(d.requests, p_requester_id, p_target_id)
  IN IF are_connected(d.connections, p_requester_id, p_target_id) THEN FALSE
     ELSE IF found = {} THEN TRUE
     ELSE LET last_request == CHOOSE q \in found : TRUE
          IN IF last_request.status = "pending" THEN FALSE
             ELSE IF last_request.status = "rejected"
                  THEN last_request.responded_at < t - Cooldown
                  ELSE FALSE

\* ---------------------------------------------- POST /contacts/request
RequestBegin_noself(caller, requesterId, targetId) ==
  LET h == [op |-> "request", pc |-> "are_connected", status |-> 0,
            caller |-> caller, requesterId |-> requesterId,
            targetId |-> targetId, request |-> NoId]
  IN IF requesterId # caller THEN Reply(h, 403) ELSE h

\* The handler up to its first store call: the ownership check and the
\* self-request check.
RequestBegin(caller, requesterId, targetId) ==
  LET h == [op |-> "request", pc |-> "are_connected", status |-> 0,
            caller |-> caller, requesterId |-> requesterId,
            targetId |-> targetId, request |-> NoId]
  IN IF requesterId # caller THEN Reply(h, 403)
     ELSE IF requesterId = targetId THEN Reply(h, 400)
     ELSE h

\* supabase.rpc('are_connected') and the 'Already connected' reply
RequestAreConnected(h, d, t) ==
  IF are_connected(d.connections, h.requesterId, h.targetId)
  THEN Out(Reply(h, 400), d)
  ELSE Out([h EXCEPT !.pc = "can_request"], d)

\* supabase.rpc('can_request_contact') and its reply
RequestCanRequest(h, d, t) ==
  IF ~can_request_contact(d, t, h.requesterId, h.targetId)
  THEN Out(Reply(h, 400), d)
  ELSE Out([h EXCEPT !.pc = "delete"], d)

\* the delete without regard to the direction of the request
RequestDelete_bothways(h, d, t) ==
  Out([h EXCEPT !.pc = "insert"],
      [d EXCEPT !.requests = (@ \ RequestRows(@, h.requesterId, h.targetId))
                               \ RequestRows(@, h.targetId, h.requesterId)])

\* delete().eq('requester_id', ...).eq('target_user_id', ...)
RequestDelete(h, d, t) ==
  Out([h EXCEPT !.pc = "insert"],
      [d EXCEPT !.requests = @ \ RequestRows(@, h.requesterId, h.targetId)])

\* insert({... status: 'pending'}); UNIQUE(requester_id, target_user_id)
\* makes the insert fail when a row of the pair exists.
RequestInsert(h, d, t) ==
  IF RequestRows(d.requests, h.requesterId, h.targetId) # {}
  THEN Out(Reply(h, 500), d)
  ELSE Out([h EXCEPT !.pc = "request_notify", !.request = d.nextReqId],
           [d EXCEPT !.requests = @ \cup
              {[id |-> d.nextReqId, requester_id |-> h.requesterId,
                target_user_id |-> h.targetId, status |-> "pending",
                responded_at |-> NoTime]},
            !.nextReqId = @ + 1])

\* notifications.insert({user_id: targetId, type: 'contact_request', ...})
RequestNotify(h, d, t) ==
  Out(Reply(h, 200),
      InsertNotification(d, h.targetId, "contact_request",
        [request_id |-> h.request, requester_id |-> h.requesterId]))

\* ---------------------------------------------- POST /contacts/respond
\* the handler without the ownership check
RespondBegin_anycaller(caller, requestId, userId, accept) ==
  [op |-> "respond", pc |-> "fetch", status |-> 0,
   caller |-> caller, requestId |-> requestId, userId |-> userId,
   accept |-> accept, request |-> [id |-> NoId]]

RespondBegin(caller, requestId, userId, accept) ==
  LET h == [op |-> "respond", pc |-> "fetch", status |-> 0,
            caller |-> caller, requestId |-> requestId, userId |-> userId,
            accept |-> accept, request |-> [id |-> NoId]]
  IN IF userId # caller THEN Reply(h, 403) ELSE h

RespondMatch_anystatus(reqs, requestId, userId) ==
  {q \in reqs : q.id = requestId /\ q.target_user_id = userId}

\* select('*').eq('id', requestId).eq('target_user_id', userId)
\*   .eq('status', 'pending')
RespondMatch(reqs, requestId, userId) ==
  {q \in reqs : q.id = requestId /\ q.target_user_id = userId
                /\ q.status = "pending"}

\* ... .single() and the 404 reply
RespondFetch(h, d, t) ==
  LET found == RespondMatch(d.requests, h.requestId, h.userId)
  IN IF Cardinality(found) # 1 THEN Out(Reply(h, 404), d)
     ELSE Out([h EXCEPT !.pc = "update",
                        !.request = CHOOSE q \in found : TRUE], d)

\* update({status, responded_at}).eq('id', requestId)
RespondUpdate(h, d, t) ==
  Out([h EXCEPT !.pc = IF h.accept THEN "connect" ELSE "respond_notify"],
      [d EXCEPT !.requests =
         {IF q.id = h.requestId
          THEN [q EXCEPT !.status = IF h.accept THEN "accepted" ELSE "rejected",
                         !.responded_at = t]
          ELSE q : q \in @}])

\* the row in the order of the request
ConnectionRow_asrequested(request) ==
  [user_id_1 |-> request.requester_id, user_id_2 |-> request.target_user_id]

\* [userId1, userId2] = requester_id < target_user_id ? ... : ...
ConnectionRow(request) ==
  IF request.requester_id < request.target_user_id
  THEN [user_id_1 |-> request.requester_id,
        user_id_2 |-> request.target_user_id]
  ELSE [user_id_1 |-> request.target_user_id,
        user_id_2 |-> request.requester_id]

\* the insert with every error thrown, the duplicate included
RespondConnect_strict(h, d, t) ==
  IF ConnectionRow(h.request) \in d.connections THEN Out(Reply(h, 500), d)
  ELSE Out([h EXCEPT !.pc = "respond_notify"],
           [d EXCEPT !.connections = @ \cup {ConnectionRow(h.request)}])

\* user_connections.insert(...); a duplicate (UNIQUE(user_id_1, user_id_2))
\* is ignored, and CHECK (user_id_1 < user_id_2) holds by construction.
RespondConnect(h, d, t) ==
  Out([h EXCEPT !.pc = "respond_notify"],
      [d EXCEPT !.connections = @ \cup {ConnectionRow(h.request)}])

\* notifications.insert({user_id: request.requester_id, type: ...})
RespondNotify(h, d, t) ==
  Out(Reply(h, 200),
      InsertNotification(d, h.request.requester_id,
        IF h.accept THEN "contact_accepted" ELSE "contact_rejected",
        [request_id |-> h.requestId, target_id |-> h.userId]))

\* ------------------------------------------------- room resolver inputs
\* getSemesterId(year, term) of routes/room.ts, toSemesterId of
\* routes/rutgers.ts (the same function twice)
getSemesterId(year, term) ==
  ToString(year) \o "-" \o
    (IF term = 1 THEN "spring" ELSE IF term = 7 THEN "fall"
     ELSE IF term = 9 THEN "summer" ELSE "winter")

Includes(seq, ch) == \E i \in 1..Len(seq) : seq[i] = ch

\* getDayOfWeek(meetingDay): the first letter found, in the order M T W H F S
getDayOfWeek(meetingDay) ==
  IF meetingDay = <<>> THEN 1
  ELSE IF Includes(meetingDay, "M") THEN 1
  ELSE IF Includes(meetingDay, "T") THEN 2
  ELSE IF Includes(meetingDay, "W") THEN 3
  ELSE IF Includes(meetingDay, "H") THEN 4
  ELSE IF Includes(meetingDay, "F") THEN 5
  ELSE IF Includes(meetingDay, "S") THEN 6
  ELSE 7

\* dayMap of routes/rutgers.ts; 0 stands for undefined
dayMap(ch) ==
  CASE ch = "M" -> 1 [] ch = "T" -> 2 [] ch = "W" -> 3 [] ch = "H" -> 4
    [] ch = "F" -> 5 [] ch = "S" -> 6 [] ch = "U" -> 7 [] OTHER -> 0

\* (course.meeting_day || '').split('').map(d => dayMap[d]).filter(Boolean)
MeetingDays(meetingDay) ==
  SelectSeq([i \in 1..Len(meetingDay) |-> dayMap(meetingDay[i])],
            LAMBDA n : n # 0)

\* formatTime(value): a military time, given as its characters, to HH:MM;
\* NULL for a missing or short value
formatTime(value) ==
  IF Len(value) < 4 THEN NULL
  ELSE value[1] \o value[2] \o ":" \o value[3] \o value[4]

RECURSIVE Concat(_)
Concat(chars) ==
  IF chars = <<>> THEN "" ELSE Head(chars) \o Concat(Tail(chars))

\* toTimeString(raw) of routes/rutgers.ts: short values are passed through
toTimeString(raw) ==
  IF raw = <<>> THEN ""
  ELSE IF Len(raw) >= 4 THEN raw[1] \o raw[2] \o ":" \o raw[3] \o raw[4]
  ELSE Concat(raw)

\* [building, room_number].filter(Boolean).join(' ').trim()
Classroom(building, room_number) ==
  IF building = "" THEN room_number
  ELSE IF room_number = "" THEN building
  ELSE building \o " " \o room_number

\* What the TIME columns start_time / end_time make of a text: Postgres reads
\* 'H:MM' as '0H:MM', so both spellings are one value.
PgTime(text) == IF Len(text) = 4 THEN "0" \o text ELSE text

\* One resolution: the natural key handed to the course and room lookups.
Item(name, school, semester, day, start, end, professor, classroom, weeks) ==
  [name |-> name, school |-> school, semester_id |-> semester,
   day_of_week |-> day, start_time |-> PgTime(start), end_time |-> PgTime(end),
   professor |-> professor, classroom |-> classroom, weeks |-> weeks]

RutgersSchool == "Rutgers University - New Brunswick"

SectionOf(cat, index, year, term) ==
  {s \in cat : s.index = index /\ s.year = year /\ s.term = term}

JoinState(path, caller, userId, todo) ==
  [op |-> "join", path |-> path, pc |-> "course_select", status |-> 0,
   caller |-> caller, userId |-> userId, todo |-> todo, i |-> 1,
   course |-> NoId, room |-> NoId, member_count |-> 0, recipients |-> {},
   roomIds |-> <<>>]

\* POST /rooms/join up to the course lookup: the section of the catalog and
\* the tuple derived from it.  Every user has a profile row, so
\* ensureUserProfile finds it.
RoomsJoinBegin(cat, caller, index, year, term) ==
  LET found == SectionOf(cat, index, year, term)
      h0 == JoinState("rooms", caller, caller, <<>>)
  IN IF Cardinality(found) # 1 THEN Reply(h0, 404)
     ELSE LET section == CHOOSE s \in found : TRUE
              startTime == formatTime(section.start_time)
              endTime == formatTime(section.end_time)
          IN IF startTime = NULL \/ endTime = NULL THEN Reply(h0, 400)
             ELSE [h0 EXCEPT !.todo = <<Item(
                     IF section.title = "" THEN "Untitled Course"
                     ELSE section.title,
                     RutgersSchool, getSemesterId(year, term),
                     getDayOfWeek(section.meeting_day), startTime, endTime,
                     section.instructor,
                     Classroom(section.building, section.room_number), "")>>]

\* POST /rutgers/join up to the course lookup: one room per meeting day.
RutgersJoinBegin(cat, caller, userId, index, year, term) ==
  LET found == SectionOf(cat, index, year, term)
      h0 == JoinState("rutgers", caller, userId, <<>>)
  IN IF userId # caller THEN Reply(h0, 403)
     ELSE IF Cardinality(found) # 1 THEN Reply(h0, 404)
     ELSE LET course == CHOOSE s \in found : TRUE
              meetingDays == MeetingDays(course.meeting_day)
              startTime == toTimeString(course.start_time)
              endTime == toTimeString(course.end_time)
          IN IF startTime = "" \/ endTime = "" \/ meetingDays = <<>>
             THEN Reply(h0, 400)
             ELSE [h0 EXCEPT !.todo =
                     [k \in 1..Len(meetingDays) |->
                        Item(course.title, RutgersSchool,
                             getSemesterId(year, term), meetingDays[k],
                             startTime, endTime, course.instructor,
                             Classroom(course.building, course.room_number),
                             "")]]

\* POST /schedule/confirm up to the loop over the confirmed courses.
ConfirmBegin(caller, userId, semester, school, list) ==
  LET h0 == JoinState("confirm", caller, userId, <<>>)
  IN IF userId # caller THEN Reply(h0, 403)
     ELSE IF list = <<>> THEN Reply(h0, 200)
     ELSE [h0 EXCEPT !.todo =
             [k \in 1..Len(list) |->
                Item(list[k].name, school, semester, list[k].day,
                     list[k].startTime, list[k].endTime, list[k].professor,
                     list[k].classroom, list[k].weeks)]]

\* ------------------------------------- room resolver, membership manager
\* The loops of /rooms/join (one tuple), /schedule/confirm (one per course) and
\* /rutgers/join (one per meeting day, the course resolved once before the
\* loop) issue the same store calls; h.path tells them apart where they differ.

\* courses: select('id').eq('name', ...).eq('school', ...)
CourseRows(d, item) ==
  {c \in d.courses : c.name = item.name /\ c.school = item.school}

RoomRows_legacy(d, course_id, item) ==
  {r \in d.rooms :
     /\ r.course_id = course_id
     /\ r.semester_id = item.semester_id
     /\ r.day_of_week = item.day_of_week
     /\ r.start_time = item.start_time
     /\ r.professor = item.professor
     /\ r.classroom = item.classroom}

\* course_rooms: the eight .eq() filters of the room lookup, which are also
\* the columns of the constraint course_rooms_unique_section
RoomRows(d, course_id, item) ==
  {r \in d.rooms :
     /\ r.course_id = course_id
     /\ r.semester_id = item.semester_id
     /\ r.day_of_week = item.day_of_week
     /\ r.start_time = item.start_time
     /\ r.end_time = item.end_time
     /\ r.professor = item.professor
     /\ r.classroom = item.classroom
     /\ r.weeks = item.weeks}

\* room_members: select('id').eq('room_id', ...).eq('user_id', ...)
MemberRows(d, room_id, user_id) ==
  {m \in d.members : m.room_id = room_id /\ m.user_id = user_id}

\* The next tuple of the loop, or the success reply after the last one.
NextItem(h) ==
  IF h.i >= Len(h.todo) THEN Reply(h, 200)
  ELSE [h EXCEPT !.i = @ + 1,
                 !.pc = IF h.path = "rutgers" THEN "room_select"
                        ELSE "course_select"]

\* let { data: existingCourse } = ... .single()
CourseSelect(h, d, t) ==
  LET found == CourseRows(d, h.todo[h.i])
  IN IF Cardinality(found) = 1
     THEN Out([h EXCEPT !.pc = "room_select",
                        !.course = (CHOOSE c \in found : TRUE).id], d)
     ELSE Out([h EXCEPT !.pc = "course_insert"], d)

\* the insert into a courses table without UNIQUE(name, school)
CourseInsert_unconstrained(h, d, t) ==
  LET item == h.todo[h.i]
      id == Cardinality(d.courses) + 1
  IN Out([h EXCEPT !.pc = "room_select", !.course = id],
         [d EXCEPT !.courses = @ \cup
            {[id |-> id, name |-> item.name, school |-> item.school]}])

\* courses.insert(...); UNIQUE(name, school); if (error) throw error
CourseInsert(h, d, t) ==
  LET item == h.todo[h.i]
      id == Cardinality(d.courses) + 1
  IN IF CourseRows(d, item) # {} THEN Out(Reply(h, 500), d)
     ELSE Out([h EXCEPT !.pc = "room_select", !.course = id],
              [d EXCEPT !.courses = @ \cup
                 {[id |-> id, name |-> item.name, school |-> item.school]}])

\* let { data: existingRoom } = ... .select('id, member_count') ... .single()
RoomSelect(h, d, t) ==
  LET found == RoomRows(d, h.course, h.todo[h.i])
  IN IF Cardinality(found) = 1
     THEN LET r == CHOOSE r \in found : TRUE
          IN Out([h EXCEPT !.pc = "member_select", !.room = r.id,
                           !.member_count = r.member_count], d)
     ELSE Out([h EXCEPT !.pc = "room_insert"], d)

\* course_rooms.insert({..., member_count: 0}); course_rooms_unique_section;
\* if (error) throw error
RoomInsert(h, d, t) ==
  LET item == h.todo[h.i]
      id == Cardinality(d.rooms) + 1
  IN IF RoomRows(d, h.course, item) # {} THEN Out(Reply(h, 500), d)
     ELSE Out([h EXCEPT !.pc = "member_select", !.room = id,
                        !.member_count = 0],
              [d EXCEPT !.rooms = @ \cup
                 {[id |-> id, course_id |-> h.course,
                   semester_id |-> item.semester_id,
                   day_of_week |-> item.day_of_week,
                   start_time |-> item.start_time, end_time |-> item.end_time,
                   professor |-> item.professor, classroom |-> item.classroom,
                   weeks |-> item.weeks, member_count |-> 0]}])

MemberSelect_blind(h, d, t) == Out([h EXCEPT !.pc = "member_insert"], d)

\* const { data: existingMember } = ...; if (!existingMember) { insert }
MemberSelect(h, d, t) ==
  IF MemberRows(d, h.room, h.userId) # {}
  THEN Out(NextItem([h EXCEPT !.roomIds = Append(@, h.room)]), d)
  ELSE Out([h EXCEPT !.pc = "member_insert"], d)

handle_room_member_count_lost(rms, room_id) == rms

\* Trigger on_room_member_change, AFTER INSERT ... FOR EACH ROW:
\* UPDATE course_rooms SET member_count = member_count + 1 WHERE id = NEW.room_id
handle_room_member_count(rms, room_id) ==
  {IF r.id = room_id THEN [r EXCEPT !.member_count = @ + 1] ELSE r : r \in rms}

\* room_members.insert({room_id, user_id}) with its trigger, in one statement
InsertMember(d, room_id, user_id) ==
  [d EXCEPT !.members = @ \cup {[room_id |-> room_id, user_id |-> user_id]},
            !.rooms = handle_room_member_count(@, room_id)]

\* The insert of the membership row; UNIQUE(room_id, user_id);
\* if (insertMemberError) throw insertMemberError.  /schedule/confirm goes on
\* to notify when the member_count it read with the room was positive.
MemberInsert(h, d, t) ==
  IF MemberRows(d, h.room, h.userId) # {} THEN Out(Reply(h, 500), d)
  ELSE LET h1 == [h EXCEPT !.roomIds = Append(@, h.room)]
       IN Out(IF h.path = "confirm" /\ h.member_count > 0
              THEN [h1 EXCEPT !.pc = "members_query"]
              ELSE NextItem(h1),
              InsertMember(d, h.room, h.userId))

\* room_members.select('user_id').eq('room_id', ...).neq('user_id', userId)
MembersQuery(h, d, t) ==
  LET found == {m.user_id : m \in {m \in d.members :
                   m.room_id = h.room /\ m.user_id # h.userId}}
  IN IF found # {}
     THEN Out([h EXCEPT !.pc = "members_notify", !.recipients = found], d)
     ELSE Out(NextItem(h), d)

RECURSIVE InsertNotifications(_, _, _, _)
InsertNotifications(d, recipients, type, data) ==
  IF recipients = {} THEN d
  ELSE LET u == CHOOSE u \in recipients : TRUE
       IN InsertNotifications(InsertNotification(d, u, type, data),
                              recipients \ {u}, type, data)

\* notifications.insert(members.map(m => ({user_id, type: 'new_member', ...})))
MembersNotify(h, d, t) ==
  Out(NextItem(h),
      InsertNotifications(d, h.recipients, "new_member",
                          [room_id |-> h.room]))

\* ------------------------------------------------ profile and room privacy
\* PATCH /users/:userId with {wechat, qq}
UpdateProfileBegin(caller, userId, wechat, qq) ==
  LET h == [op |-> "profile", pc |-> "profile_update", status |-> 0,
            caller |-> caller, userId |-> userId, wechat |-> wechat,
            qq |-> qq]
  IN IF userId # caller THEN Reply(h, 403) ELSE h

\* users.update(updates).eq('id', userId)
ProfileUpdate(h, d, t) ==
  Out(Reply(h, 200),
      [d EXCEPT !.users[h.userId].wechat = h.wechat,
                !.users[h.userId].qq = h.qq])

\* handleAutoShareToggle of the profile page:
\* users.update({auto_share_contact: checked}).eq('id', user.id)
AutoShareBegin(user, checked) ==
  [op |-> "autoshare", pc |-> "autoshare_update", status |-> 0,
   caller |-> user, userId |-> user, checked |-> checked]

AutoShareUpdate_all(h, d, t) ==
  Out(Reply(h, 200),
      [d EXCEPT !.users =
         [u \in DOMAIN @ |-> [@[u] EXCEPT !.auto_share_contact = h.checked]]])

AutoShareUpdate(h, d, t) ==
  Out(Reply(h, 200), [d EXCEPT !.users[h.userId].auto_share_contact = h.checked])

\* POST /rooms/:roomId/privacy up to the upsert
SetPrivacyBegin(caller, roomId, userId, isPublic) ==
  LET h == [op |-> "privacy", pc |-> "privacy_upsert", status |-> 0,
            caller |-> caller, roomId |-> roomId, userId |-> userId,
            isPublic |-> isPublic]
  IN IF userId # caller THEN Reply(h, 403) ELSE h

\* room_privacy_settings.upsert(..., {onConflict: 'room_id,user_id'}); the
\* room_id references course_rooms(id)
PrivacyUpsert(h, d, t) ==
  IF ~\E r \in d.rooms : r.id = h.roomId THEN Out(Reply(h, 500), d)
  ELSE Out(Reply(h, 200),
           [d EXCEPT !.privacy =
              {p \in @ : ~(p.room_id = h.roomId /\ p.user_id = h.userId)}
              \cup {[room_id |-> h.roomId, user_id |-> h.userId,
                     is_public |-> h.isPublic]}])

\* ------------------------------------------------------ GET /rooms/:roomId
\* connectionSet: the other end of every connection row of the viewer
ConnectionSet(d, currentUserId) ==
  IF currentUserId = NoUser THEN {}
  ELSE {IF c.user_id_1 = currentUserId THEN c.user_id_2 ELSE c.user_id_1 :
          c \in {c \in d.connections : c.user_id_1 = currentUserId
                                        \/ c.user_id_2 = currentUserId}}

RequestStatus_forever(d, t, currentUserId, userId) ==
  LET mine == IF currentUserId = NoUser THEN {}
              ELSE {q \in d.requests : /\ q.requester_id = currentUserId
                                       /\ q.target_user_id = userId}
  IN IF mine = {} THEN "none" ELSE (CHOOSE q \in mine : TRUE).status

\* requestStatusMap: the viewer's own requests by target, without those
\* rejected more than the cooldown ago; "none" stands for no entry
RequestStatus(d, t, currentUserId, userId) ==
  LET mine == IF currentUserId = NoUser THEN {}
              ELSE {q \in d.requests :
                      /\ q.requester_id = currentUserId
                      /\ q.target_user_id = userId
                      /\ ~(q.status = "rejected" /\ q.responded_at # NoTime
                           /\ q.responded_at < t - Cooldown)}
  IN IF mine = {} THEN "none" ELSE (CHOOSE q \in mine : TRUE).status

\* privacyMap.get(userId) === true
IsPublicInRoom(d, roomId, userId) ==
  \E p \in d.privacy :
     p.room_id = roomId /\ p.user_id = userId /\ p.is_public = TRUE

canSeeContact_anyconnection(d, roomId, currentUserId, userId) ==
  \/ userId = currentUserId
  \/ \E c \in d.connections : c.user_id_1 = userId \/ c.user_id_2 = userId
  \/ d.users[userId].auto_share_contact = TRUE
  \/ IsPublicInRoom(d, roomId, userId)

canSeeContact_noconnection(d, roomId, currentUserId, userId) ==
  \/ userId = currentUserId
  \/ d.users[userId].auto_share_contact = TRUE
  \/ IsPublicInRoom(d, roomId, userId)

\* canSeeContact = isCurrentUser || isConnected || hasAutoShare || isPublicInRoom
canSeeContact(d, roomId, currentUserId, userId) ==
  \/ userId = currentUserId
  \/ userId \in ConnectionSet(d, currentUserId)
  \/ d.users[userId].auto_share_contact = TRUE
  \/ IsPublicInRoom(d, roomId, userId)

\* One entry of membersWithVisibility
MemberView(d, t, roomId, currentUserId, userId) ==
  LET visible == canSeeContact(d, roomId, currentUserId, userId)
      requestStatus == RequestStatus(d, t, currentUserId, userId)
  IN [id |-> userId,
      wechat |-> IF visible THEN d.users[userId].wechat ELSE NULL,
      qq |-> IF visible THEN d.users[userId].qq ELSE NULL,
      contactStatus |-> IF visible THEN "visible"
                        ELSE IF requestStatus = "pending" THEN "pending"
                        ELSE IF requestStatus = "rejected" THEN "rejected"
                        ELSE "hidden",
      isConnected |-> userId \in ConnectionSet(d, currentUserId)]

GetRoomBegin(viewer, roomId) ==
  [op |-> "getRoom", pc |-> "room_detail", status |-> 0, caller |-> viewer,
   roomId |-> roomId, memberCount |-> 0, members |-> {}]

\* const { data: privacySettings } = ..., const { data: connections } = ...,
\* const { data: myRequests } = ...: the error of a failed lookup is not
\* read, and its data, null, stands for no rows.
Lookups(d) ==
  [d EXCEPT !.privacy = IF "room_privacy" \in d.faults THEN {} ELSE @,
            !.connections = IF "room_connections" \in d.faults THEN {} ELSE @,
            !.requests = IF "room_requests" \in d.faults THEN {} ELSE @]

\* The handler's reads (room, members, privacy settings, connections, the
\* viewer's requests), taken as one snapshot of the store.
RoomDetail(h, d, t) ==
  LET found == {r \in d.rooms : r.id = h.roomId}
      seen == Lookups(d)
  IN IF Cardinality(found) # 1 THEN Out(Reply(h, 500), d)
     ELSE Out([Reply(h, 200) EXCEPT
                 !.memberCount = (CHOOSE r \in found : TRUE).member_count,
                 !.members =
                   {MemberView(seen, t, h.roomId, h.caller, m.user_id) :
                      m \in {m \in d.members : m.room_id = h.roomId}}], d)

\* ------------------------------------------------------------ rate limiter
\* In the specifications that let the clock pass a day (SpecQuota, SpecRate)
\* one unit of the clock is 30 seconds.
\* windowMs: 60_000
WindowMs == 2

\* app.use('*', rateLimit({ windowMs: 60_000, max: 120, keyPrefix: 'global' }))
GlobalLimit == [windowMs |-> WindowMs, max |-> 120, keyPrefix |-> "global"]

\* rateLimit({ windowMs: 60_000, max: 10, keyPrefix: 'llm' })
LlmLimit == [windowMs |-> WindowMs, max |-> 10, keyPrefix |-> "llm"]

\* getKey: `${prefix}:${ip}`
getKey(ip, prefix) == prefix \o ":" \o ip

\* buckets.get(key): the bucket of the key, if any
BucketsGet(d, key) == {b \in d.buckets : b.key = key}

\* buckets.set(key, bucket)
BucketsSet(d, key, count, resetAt) ==
  [d EXCEPT !.buckets = {b \in @ : b.key # key}
                          \cup {[key |-> key, count |-> count, resetAt |-> resetAt]}]

\* the middleware with the comparison of the count off by one
rateLimit_above(options, h, d, t, next) ==
  LET key == getKey(h.ip, options.keyPrefix)
      existing == BucketsGet(d, key)
  IN IF existing = {} \/ \E b \in existing : b.resetAt <= t
     THEN Out([h EXCEPT !.pc = next], BucketsSet(d, key, 1, t + options.windowMs))
     ELSE LET b == CHOOSE b \in existing : TRUE
          IN IF b.count > options.max
             THEN Out([Reply(h, 429) EXCEPT !.error = "Rate limit exceeded",
                                            !.limit = options.keyPrefix], d)
             ELSE Out([h EXCEPT !.pc = next],
                      BucketsSet(d, key, b.count + 1, b.resetAt))

\* rateLimit(options): the middleware in front of a handler whose first step
\* is next
rateLimit(options, h, d, t, next) ==
  LET key == getKey(h.ip, options.keyPrefix)
      existing == BucketsGet(d, key)
  IN IF existing = {} \/ \E b \in existing : b.resetAt <= t
     THEN Out([h EXCEPT !.pc = next], BucketsSet(d, key, 1, t + options.windowMs))
     ELSE LET b == CHOOSE b \in existing : TRUE
          IN IF b.count >= options.max
             THEN Out([Reply(h, 429) EXCEPT !.error = "Rate limit exceeded",
                                            !.limit = options.keyPrefix], d)
             ELSE Out([h EXCEPT !.pc = next],
                      BucketsSet(d, key, b.count + 1, b.resetAt))

\* -------------------------------------------------------------- quota gate
\* parseInt(process.env.DAILY_MATCH_QUOTA || '3')
DAILY_QUOTA == 3

\* a day, in units of the clock
Day == 2880

\* nextResetAt: setUTCHours(24, 0, 0, 0), the first UTC midnight after now
nextResetAt(t) == ((t \div Day) + 1) * Day

\* the gate without the lazy reset
Remaining_stored(user, t) == user.match_quota_remaining

\* the counter the gate decides on: the stored one, or the allowance when the
\* stored reset_at is null or not after now
Remaining(user, t) ==
  IF user.match_quota_reset_at = NoTime \/ user.match_quota_reset_at <= t
  THEN DAILY_QUOTA
  ELSE user.match_quota_remaining

\* POST /schedule/parse behind the two rate limiters and requireAccess
ParseBegin(caller, ip, isEdu) ==
  [op |-> "parse", pc |-> "global_limit", status |-> 0, caller |-> caller,
   ip |-> ip, isEdu |-> isEdu, remaining |-> 0, error |-> NULL,
   limit |-> NULL]

\* consumeQuota: if (isEdu) return
ConsumeBegin(h) == IF h.isEdu THEN "parse_image" ELSE "quota_select"

\* consumeQuota: the select of the user's counters and the decision
QuotaSelect(h, d, t) ==
  LET remaining == Remaining(d.users[h.caller], t)
  IN IF remaining <= 0
     THEN Out([Reply(h, 429) EXCEPT !.error = "Quota exceeded"], d)
     ELSE Out([h EXCEPT !.pc = "quota_update", !.remaining = remaining], d)

\* the update that stores the counters and leaves reset_at as it was
QuotaUpdate_keepreset(h, d, t) ==
  Out([h EXCEPT !.pc = "parse_image"],
      [d EXCEPT !.users[h.caller].match_quota_remaining = h.remaining - 1])

\* consumeQuota: the update of the user's counters
QuotaUpdate(h, d, t) ==
  Out([h EXCEPT !.pc = "parse_image"],
      [d EXCEPT !.users[h.caller].match_quota_remaining = h.remaining - 1,
                !.users[h.caller].match_quota_reset_at = nextResetAt(t)])

\* recordLlmCall: metrics.llmCalls += 1
recordLlmCall(d) == [d EXCEPT !.llmCalls = @ + 1]

\* parseScheduleImage: courses or no courses, both recorded as a call, or a
\* failure of the provider, which is thrown past the record
ParseImage(h, d, t) ==
  {[h |-> Reply(h, code), db |-> recordLlmCall(d)] : code \in {200, 400}}
  \cup Out(Reply(h, 500), d)

\* ------------------------------------------------------------ store failures
\* The store calls whose failure is considered, by the pc of the handler that
\* issues them or, for the lookups of GET /rooms/:roomId, by their table.
FaultPoints ==
  {"are_connected", "can_request", "delete", "insert", "request_notify",
   "fetch", "update", "connect", "respond_notify",
   "members_query", "members_notify",
   "room_detail", "room_privacy", "room_connections", "room_requests"}

\* every error thrown and answered by the catch block
Failed_thrown(h, d, t) == Out(Reply(h, 500), d)

\* What the handler does when the store call it stands at returns an error.
Failed(h, d, t) ==
  CASE h.pc = "are_connected" -> Out([h EXCEPT !.pc = "can_request"], d)
    [] h.pc = "can_request" -> Out(Reply(h, 400), d)
    [] h.pc = "delete" -> Out([h EXCEPT !.pc = "insert"], d)
    [] h.pc = "insert" -> Out(Reply(h, 500), d)
    [] h.pc = "request_notify" -> Out(Reply(h, 200), d)
    [] h.pc = "fetch" -> Out(Reply(h, 404), d)
    [] h.pc = "update" -> Out(Reply(h, 500), d)
    [] h.pc = "connect" -> Out(Reply(h, 500), d)
    [] h.pc = "respond_notify" -> Out(Reply(h, 200), d)
    [] h.pc = "members_query" -> Out(NextItem(h), d)
    [] h.pc = "members_notify" -> Out(NextItem(h), d)
    [] h.pc = "room_detail" -> Out(Reply(h, 500), d)

\* ------------------------------------------------------------- scheduling
\* One step of a handler: the store call its pc stands at.
Step(h, d, t) ==
  IF h.pc \in d.faults THEN Failed(h, d, t) ELSE
  CASE h.pc = "are_connected" -> RequestAreConnected(h, d, t)
    [] h.pc = "can_request" -> RequestCanRequest(h, d, t)
    [] h.pc = "delete" -> RequestDelete(h, d, t)
    [] h.pc = "insert" -> RequestInsert(h, d, t)
    [] h.pc = "request_notify" -> RequestNotify(h, d, t)
    [] h.pc = "fetch" -> RespondFetch(h, d, t)
    [] h.pc = "update" -> RespondUpdate(h, d, t)
    [] h.pc = "connect" -> RespondConnect(h, d, t)
    [] h.pc = "respond_notify" -> RespondNotify(h, d, t)
    [] h.pc = "course_select" -> CourseSelect(h, d, t)
    [] h.pc = "course_insert" -> CourseInsert(h, d, t)
    [] h.pc = "room_select" -> RoomSelect(h, d, t)
    [] h.pc = "room_insert" -> RoomInsert(h, d, t)
    [] h.pc = "member_select" -> MemberSelect(h, d, t)
    [] h.pc = "member_insert" -> MemberInsert(h, d, t)
    [] h.pc = "members_query" -> MembersQuery(h, d, t)
    [] h.pc = "members_notify" -> MembersNotify(h, d, t)
    [] h.pc = "profile_update" -> ProfileUpdate(h, d, t)
    [] h.pc = "autoshare_update" -> AutoShareUpdate(h, d, t)
    [] h.pc = "privacy_upsert" -> PrivacyUpsert(h, d, t)
    [] h.pc = "room_detail" -> RoomDetail(h, d, t)
    [] h.pc = "global_limit" -> rateLimit(GlobalLimit, h, d, t, "llm_limit")
    [] h.pc = "llm_limit" -> rateLimit(LlmLimit, h, d, t, ConsumeBegin(h))
    [] h.pc = "quota_select" -> QuotaSelect(h, d, t)
    [] h.pc = "quota_update" -> QuotaUpdate(h, d, t)
    [] h.pc = "parse_image" -> ParseImage(h, d, t)

\* A handler run to its reply with no other request in between.
RECURSIVE Run(_, _, _)
Run(h, d, t) ==
  IF h.pc = "done" THEN Out(h, d)
  ELSE UNION {Run(c.h, c.db, t) : c \in Step(h, d, t)}

\* A request handled from arrival to reply in one action.
Handle(h) ==
  \E c \in Run(h, DB, now) :
     /\ Commit(c.db)
     /\ resp' = c.h
     /\ UNCHANGED <<catalog, now, procs>>

\* A request arrives in slot p.
Arrive(p, h) ==
  /\ procs[p].pc = "idle"
  /\ procs' = [procs EXCEPT ![p] = h]
  /\ UNCHANGED <<tables, catalog, now, resp>>

\* The handler in slot p performs its next store call.
Proceed(p) ==
  /\ procs[p].pc \notin {"idle", "done"}
  /\ \E c \in Step(procs[p], DB, now) :
        /\ Commit(c.db)
        /\ procs' = [procs EXCEPT ![p] = c.h]
  /\ UNCHANGED <<catalog, now, resp>>

\* The reply of slot p is sent.
Return(p) ==
  /\ procs[p].pc = "done"
  /\ procs' = [procs EXCEPT ![p] = Idle]
  /\ UNCHANGED <<tables, catalog, now, resp>>

Tick ==
  /\ now < MaxTime
  /\ now' = now + 1
  /\ UNCHANGED <<tables, catalog, procs, resp>>

\* ------------------------------------------------------------------ inputs
\* Two sections of the catalog: a lecture on two days, and a section of the
\* same course with instructor and location still to be announced.
Catalog ==
  {[index |-> "10364", year |-> 2025, term |-> 1, title |-> "Calculus I",
    meeting_day |-> <<"M", "W">>, start_time |-> <<"0", "9", "0", "0">>,
    end_time |-> <<"1", "0", "2", "0">>, instructor |-> "Smith",
    building |-> "HLL", room_number |-> "114"],
   [index |-> "10365", year |-> 2025, term |-> 1, title |-> "Calculus I",
    meeting_day |-> <<"T">>, start_time |-> <<"0", "9", "0", "0">>,
    end_time |-> <<"1", "0", "2", "0">>, instructor |-> "",
    building |-> "", room_number |-> ""]}

Indexes == {"10364", "10365", "99999"}

\* A confirmed course of a parsed schedule: the Monday lecture of section
\* 10364 as the vision parser spells it.
ParsedCalculus ==
  [name |-> "Calculus I", day |-> 1, startTime |-> "9:00",
   endTime |-> "10:20", classroom |-> "HLL 114", professor |-> "Smith",
   weeks |-> ""]

\* match_quota_remaining INT DEFAULT 10
DefaultQuota == 10

NoProfile ==
  [wechat |-> NULL, qq |-> NULL, auto_share_contact |-> FALSE,
   match_quota_remaining |-> DefaultQuota, match_quota_reset_at |-> NoTime]

Init ==
  /\ users = [u \in Users |-> NoProfile]
  /\ catalog = Catalog
  /\ courses = {}
  /\ rooms = {}
  /\ members = {}
  /\ privacy = {}
  /\ requests = {}
  /\ connections = {}
  /\ notifications = {}
  /\ nextReqId = 1
  /\ buckets = {}
  /\ llmCalls = 0
  /\ faults = {}
  /\ now = 0
  /\ procs = [p \in Procs |-> Idle]
  /\ resp = Idle

\* ------------------------------------------------------ contacts, in turn
\* The ids a caller may name: those of the rows, and one that names no row.
RequestIds == {q.id : q \in requests} \cup {nextReqId}

Request(caller, requesterId, targetId) ==
  Handle(RequestBegin(caller, requesterId, targetId))

Respond(caller, requestId, userId, accept) ==
  Handle(RespondBegin(caller, requestId, userId, accept))

NextContacts ==
  \/ /\ nextReqId <= MaxRequests
     /\ \E caller \in Pair, a \in Pair, b \in Pair : Request(caller, a, b)
  \/ \E caller \in Pair, id \in RequestIds, u \in Pair, accept \in BOOLEAN :
       Respond(caller, id, u, accept)
  \/ Tick

SpecContacts == Init /\ [][NextContacts]_vars

\* ------------------------------------------- contacts, handled concurrently
RequestArrives(p, requesterId, targetId) ==
  /\ nextReqId <= MaxRaceRequests
  /\ Arrive(p, RequestBegin(requesterId, requesterId, targetId))

RespondArrives(p, requestId, userId, accept) ==
  Arrive(p, RespondBegin(userId, requestId, userId, accept))

NextContactRace ==
  \/ \E p \in Procs, a \in Pair : \E b \in Pair \ {a} : RequestArrives(p, a, b)
  \/ \E p \in Procs, q \in requests, accept \in BOOLEAN :
       RespondArrives(p, q.id, q.target_user_id, accept)
  \/ \E p \in Procs : Proceed(p)
  \/ \E p \in Procs : Return(p)

SpecContactRace == Init /\ [][NextContactRace]_vars


\* ------------------------------------------------- the room member list
MaxViewRequests == 1   \* contact_requests rows ever inserted while viewing

\* Profiles as the profile page stored them; user 2 gave no qq.
Profiles ==
  [u \in Users |->
     [NoProfile EXCEPT !.wechat = "wx" \o ToString(u),
                       !.qq = IF u = 2 THEN NULL ELSE "qq" \o ToString(u)]]

InitView ==
  /\ users = Profiles
  /\ catalog = Catalog
  /\ courses = {}
  /\ rooms = {}
  /\ members = {}
  /\ privacy = {}
  /\ requests = {}
  /\ connections = {}
  /\ notifications = {}
  /\ nextReqId = 1
  /\ buckets = {}
  /\ llmCalls = 0
  /\ faults = {}
  /\ now = 0
  /\ procs = [p \in Procs |-> Idle]
  /\ resp = Idle

RoomIds == {r.id : r \in rooms}

RutgersJoin(caller, userId, index) ==
  Handle(RutgersJoinBegin(catalog, caller, userId, index, 2025, 1))

AutoShare(user, checked) == Handle(AutoShareBegin(user, checked))

SetPrivacy(caller, roomId, userId, isPublic) ==
  Handle(SetPrivacyBegin(caller, roomId, userId, isPublic))

GetRoom(viewer, roomId) == Handle(GetRoomBegin(viewer, roomId))

\* Both users toggle auto-share; user 1 is the one who sets room privacy.
NextView ==
  \/ \E u \in Pair : RutgersJoin(u, u, "10364")
  \/ \E u \in Pair, checked \in BOOLEAN : AutoShare(u, checked)
  \/ \E r \in RoomIds, isPublic \in BOOLEAN : SetPrivacy(1, r, 1, isPublic)
  \/ /\ nextReqId <= MaxViewRequests
     /\ \E a \in Pair : \E b \in Pair \ {a} : Request(a, a, b)
  \/ \E q \in requests, accept \in BOOLEAN :
       Respond(q.target_user_id, q.id, q.target_user_id, accept)
  \/ \E viewer \in Pair \cup {NoUser}, r \in RoomIds : GetRoom(viewer, r)

SpecView == InitView /\ [][NextView]_vars

\* --------------------------------------------------- joins, at the same time
Semester == getSemesterId(2025, 1)

\* The slots are alike: a request takes the first idle one.
FirstIdle(p) == \A q \in Procs : q < p => procs[q].pc # "idle"

RoomsJoinArrives(p, caller, index) ==
  /\ FirstIdle(p)
  /\ Arrive(p, RoomsJoinBegin(catalog, caller, index, 2025, 1))

ConfirmArrives(p, caller, list) ==
  /\ FirstIdle(p)
  /\ Arrive(p, ConfirmBegin(caller, caller, Semester, RutgersSchool, list))

RutgersJoinArrives(p, caller, index) ==
  /\ FirstIdle(p)
  /\ Arrive(p, RutgersJoinBegin(catalog, caller, caller, index, 2025, 1))

NextJoin ==
  \/ \E p \in Procs, u \in Pair : RoomsJoinArrives(p, u, "10364")
  \/ \E p \in Procs, u \in Pair : ConfirmArrives(p, u, <<ParsedCalculus>>)
  \/ \E p \in Procs, u \in Pair : RutgersJoinArrives(p, u, "10364")
  \/ \E p \in Procs : Proceed(p)
  \/ \E p \in Procs : Return(p)

SpecJoin == Init /\ [][NextJoin]_vars

\* ------------------------------------------------------- joins, in turn
RoomsJoin(caller, index) ==
  Handle(RoomsJoinBegin(catalog, caller, index, 2025, 1))

Confirm(caller, userId, semester, school, list) ==
  Handle(ConfirmBegin(caller, userId, semester, school, list))

\* The Monday lecture of another course at the same hours.
ParsedPhysics == [ParsedCalculus EXCEPT !.name = "Physics I"]

ParsedLists ==
  {<<ParsedCalculus>>, <<ParsedCalculus, ParsedPhysics>>,
   <<ParsedCalculus, ParsedCalculus>>}

NextRooms ==
  \/ \E u \in Pair, index \in Indexes : RoomsJoin(u, index)
  \/ \E u \in Pair, list \in ParsedLists :
       Confirm(u, u, Semester, RutgersSchool, list)
  \/ \E u \in Pair : RutgersJoin(u, u, "10364")

SpecRooms == Init /\ [][NextRooms]_vars

\* ------------------------------------------------ resolutions, field by field
MaxRooms == 2   \* rooms present when a confirmed course of any shape arrives

Names == {"Calculus I", "Physics I"}
Schools == {RutgersSchool, "NJIT"}
Semesters == {Semester, "2025-fall"}
Days == {1, 2}
Starts == {"9:00", "09:00", "10:00"}
Ends == {"10:20", "11:20"}
Professors == {"Smith", ""}
Classrooms == {"HLL 114", ""}
Weeks == {"", "1-8"}

\* The section without instructor and location, as a confirmed course.
ParsedTBA ==
  [ParsedCalculus EXCEPT !.day = 2, !.professor = "", !.classroom = ""]

Asked(semester, school, course) ==
  [semester |-> semester, school |-> school, name |-> course.name,
   day |-> course.day, startTime |-> course.startTime,
   endTime |-> course.endTime, classroom |-> course.classroom,
   professor |-> course.professor, weeks |-> course.weeks]

\* The two requests differ in one field at most.
Near(a, b) == \E f \in DOMAIN a : \A g \in DOMAIN a \ {f} : a[g] = b[g]

\* Confirm requests for the two known sections, and every request that spells
\* one field of one of them differently.
ConfirmRequests ==
  {a \in [semester : Semesters, school : Schools, name : Names, day : Days,
          startTime : Starts, endTime : Ends, classroom : Classrooms,
          professor : Professors, weeks : Weeks] :
     \/ Near(a, Asked(Semester, RutgersSchool, ParsedCalculus))
     \/ Near(a, Asked(Semester, RutgersSchool, ParsedTBA))}

NextResolve ==
  \/ \E index \in Indexes : RoomsJoin(1, index)
  \/ RutgersJoin(1, 1, "10364")
  \/ Confirm(1, 1, Semester, RutgersSchool, <<ParsedCalculus>>)
  \/ /\ rooms # {}
     /\ Cardinality(rooms) < MaxRooms
     /\ \E a \in ConfirmRequests :
          Confirm(1, 1, a.semester, a.school,
                  <<[name |-> a.name, day |-> a.day,
                     startTime |-> a.startTime, endTime |-> a.endTime,
                     classroom |-> a.classroom, professor |-> a.professor,
                     weeks |-> a.weeks]>>)

SpecResolve == Init /\ [][NextResolve]_vars

\* ------------------------------------- the member list as time passes
NextStatus ==
  \/ \E u \in Pair : RoomsJoin(u, "10364")
  \/ \E checked \in BOOLEAN : AutoShare(2, checked)
  \/ /\ nextReqId <= MaxViewRequests
     /\ \E a \in Pair : \E b \in Pair \ {a} : Request(a, a, b)
  \/ \E q \in requests, accept \in BOOLEAN :
       Respond(q.target_user_id, q.id, q.target_user_id, accept)
  \/ \E viewer \in Pair \cup {NoUser}, r \in RoomIds : GetRoom(viewer, r)
  \/ Tick

SpecStatus == InitView /\ [][NextStatus]_vars

\* ------------------------------------------------- the quota gate over days
MaxDays == 1

\* The instants the clock visits: each midnight, the end of a rate-limit
\* window opened at midnight, and noon.
QuotaTimes == {d * Day + m : d \in 0 .. MaxDays, m \in {0, WindowMs, Day \div 2}}

Advance ==
  /\ \E t \in QuotaTimes : t > now /\ now' = t
  /\ UNCHANGED <<tables, catalog, procs, resp>>

Ips == {"10.0.0.1", "10.0.0.2"}

Parse(caller, ip, isEdu) == Handle(ParseBegin(caller, ip, isEdu))

MaxLlmCalls == 4

NextQuota ==
  \/ /\ llmCalls < MaxLlmCalls
     /\ \E isEdu \in BOOLEAN : Parse(1, "10.0.0.1", isEdu)
  \/ Advance

SpecQuota == Init /\ [][NextQuota]_vars

\* ------------------------------------------ callers naming somebody else
\* Requests, responses and privacy settings in which the caller and the user
\* named in the body are any two of the pair.
NextOwner ==
  \/ \E u \in Pair : RoomsJoin(u, "10364")
  \/ /\ nextReqId <= MaxViewRequests
     /\ \E caller \in Pair, a \in Pair, b \in Pair : Request(caller, a, b)
  \/ \E caller \in Pair, id \in RequestIds, u \in Pair, accept \in BOOLEAN :
       Respond(caller, id, u, accept)
  \/ \E caller \in Pair, r \in RoomIds, u \in Pair, isPublic \in BOOLEAN :
       SetPrivacy(caller, r, u, isPublic)

SpecOwner == InitView /\ [][NextOwner]_vars

\* ------------------------------------------------ requests from two addresses
MaxSecond == 2

\* The first address sends as often as it likes, the second one at most
\* MaxSecond requests in a window.
MaySend(ip) ==
  \/ ip = "10.0.0.1"
  \/ \A b \in buckets :
        (b.key = getKey(ip, GlobalLimit.keyPrefix) /\ b.resetAt > now)
          => b.count < MaxSecond

NextRate ==
  \/ /\ llmCalls < MaxLlmCalls
     /\ \E ip \in Ips : MaySend(ip) /\ Parse(1, ip, TRUE)
  \/ Tick

SpecRate == Init /\ [][NextRate]_vars

\* ------------------------------------------------------ a store that fails
\* One store call starts to fail.
Break(f) ==
  /\ faults = {}
  /\ faults' = {f}
  /\ UNCHANGED <<users, catalog, courses, rooms, members, privacy, requests,
                 connections, notifications, nextReqId, buckets, llmCalls,
                 now, procs, resp>>

\* The store works again.
Repair ==
  /\ faults # {}
  /\ faults' = {}
  /\ UNCHANGED <<users, catalog, courses, rooms, members, privacy, requests,
                 connections, notifications, nextReqId, buckets, llmCalls,
                 now, procs, resp>>

ContactFaults == FaultPoints \ {"members_query", "members_notify"}

NextFaults ==
  \/ \E u \in Pair : RoomsJoin(u, "10364")
  \/ /\ nextReqId <= MaxViewRequests
     /\ \E a \in Pair : \E b \in Pair \ {a} : Request(a, a, b)
  \/ \E q \in requests, accept \in BOOLEAN :
       Respond(q.target_user_id, q.id, q.target_user_id, accept)
  \/ \E viewer \in Pair \cup {NoUser}, r \in RoomIds : GetRoom(viewer, r)
  \/ \E f \in ContactFaults : Break(f)
  \/ Repair

SpecFaults == InitView /\ [][NextFaults]_vars

\* ------------------------------------------- a fan-out that fails
FanoutFaults == {"members_query", "members_notify"}

NextFanout ==
  \/ \E u \in Pair, index \in Indexes : RoomsJoin(u, index)
  \/ \E u \in Pair, list \in ParsedLists : Confirm(u, u, Semester, RutgersSchool, list)
  \/ \E f \in FanoutFaults : Break(f)
  \/ Repair

SpecFanout == Init /\ [][NextFanout]_vars

\* ------------------------------------------------- parse requests at once
\* The store and the process before any request.
DB0 ==
  [users |-> [u \in Users |-> NoProfile], courses |-> {}, rooms |-> {},
   members |-> {}, privacy |-> {}, requests |-> {}, connections |-> {},
   notifications |-> {}, nextReqId |-> 1, buckets |-> {}, llmCalls |-> 0,
   faults |-> {}]

\* The state after user 1's first parse of the day was answered: the
\* counter is one below the allowance and reset_at is the next midnight.
InitQuotaRace ==
  /\ \E c \in Run(ParseBegin(1, "10.0.0.1", FALSE), DB0, 0) :
        /\ c.h.status = 200
        /\ users = c.db.users
        /\ buckets = c.db.buckets
        /\ llmCalls = c.db.llmCalls
  /\ catalog = Catalog
  /\ courses = {}
  /\ rooms = {}
  /\ members = {}
  /\ privacy = {}
  /\ requests = {}
  /\ connections = {}
  /\ notifications = {}
  /\ nextReqId = 1
  /\ faults = {}
  /\ now = 0
  /\ procs = [p \in Procs |-> Idle]
  /\ resp = Idle

ParseArrives(p, caller, ip, isEdu) ==
  /\ FirstIdle(p)
  /\ llmCalls < MaxLlmCalls
  /\ Arrive(p, ParseBegin(caller, ip, isEdu))

NextQuotaRace ==
  \/ \E p \in Procs : ParseArrives(p, 1, "10.0.0.1", FALSE)
  \/ \E p \in Procs : Proceed(p)
  \/ \E p \in Procs : Return(p)

SpecQuotaRace == InitQuotaRace /\ [][NextQuotaRace]_vars

\* ------------------------------------------------------------------ claims
\* C3: whatever requests and responses are handled at the same time, the
\* status of a contact request only ever changes away from pending: once a
\* row is accepted or rejected no step gives it another status.
C3_StatusLeavesOnlyPending ==
  [][\A q \in requests : \A q2 \in requests' :
       (q2.id = q.id /\ q2.status # q.status) => q.status = "pending"]_vars

\* A step that handles a request from arrival to reply (the clock stands).
Handled == now' = now

Connected(a, b) ==
  \E c \in connections : {c.user_id_1, c.user_id_2} = {a, b}

SentBy(a, b) == {q \in requests : q.requester_id = a /\ q.target_user_id = b}

\* C4 as stated: canRequest(a, b) is false if a and b are connected, if the
\* request from a to b is pending, or if it is rejected and less than the
\* cooldown has passed since responded_at; it is true in every other state;
\* a request from b to a never matters.
C4_AsStated ==
  \A a \in Pair : \A b \in Pair \ {a} :
    can_request_contact(DB, now, a, b) =
      ~(\/ Connected(a, b)
        \/ \E q \in SentBy(a, b) : q.status = "pending"
        \/ \E q \in SentBy(a, b) :
             q.status = "rejected" /\ now - q.responded_at < Cooldown)

\* C4, amended: canRequest(a, b) is false if a and b are connected, if the
\* request from a to b is pending or accepted, or if it is rejected and at
\* most the cooldown has passed since responded_at (the boundary included);
\* it is true in every other state; a request from b to a never matters.
C4_CanRequest ==
  \A a \in Pair : \A b \in Pair \ {a} :
    can_request_contact(DB, now, a, b) =
      ~(\/ Connected(a, b)
        \/ \E q \in SentBy(a, b) : q.status \in {"pending", "accepted"}
        \/ \E q \in SentBy(a, b) :
             q.status = "rejected" /\ now - q.responded_at <= Cooldown)

\* a may ask b again after an expired rejection while b's own request to a
\* is pending.
C4_Witness ==
  \E a \in Pair : \E b \in Pair \ {a} :
    /\ can_request_contact(DB, now, a, b)
    /\ \E q \in SentBy(a, b) : q.status = "rejected"
    /\ \E q \in SentBy(b, a) : q.status = "pending"

\* The request handled by this step is one from a to b by a.
IsRequest(h, a, b) ==
  /\ h.op = "request"
  /\ h.caller = a
  /\ h.requesterId = a
  /\ h.targetId = b

\* The request of h succeeded: its row is new, pending, not yet answered, and
\* the only row from a to b.
Sent(h, a, b) ==
  /\ h.status = 200
  /\ \E n \in requests' :
       /\ n.id = h.request
       /\ n.id \notin {q.id : q \in requests}
       /\ n.status = "pending"
       /\ n.responded_at = NoTime
       /\ {q \in requests' : q.requester_id = a /\ q.target_user_id = b} = {n}

\* The last request handled was the rejection of q: nothing changed since.
JustRejected(q) ==
  /\ resp.op = "respond"
  /\ resp.requestId = q.id
  /\ resp.status = 200
  /\ ~resp.accept

C7_RespondOnlyPendingTarget ==
  [][(Handled /\ resp'.op = "respond" /\ resp'.caller = resp'.userId) =>
       IF \E q \in requests : /\ q.id = resp'.requestId
                              /\ q.target_user_id = resp'.userId
                              /\ q.status = "pending"
       THEN /\ resp'.status = 200
            /\ \E q \in requests' :
                 /\ q.id = resp'.requestId
                 /\ q.status = IF resp'.accept THEN "accepted" ELSE "rejected"
       ELSE /\ resp'.status = 404
            /\ UNCHANGED <<requests, connections, notifications>>]_vars

\* The requester tried to answer a request that meanwhile was answered, or
\* that was sent by the caller: not found.
C7_Witness ==
  /\ resp.op = "respond"
  /\ resp.caller = resp.userId
  /\ resp.status = 404
  /\ \E q \in requests : q.id = resp.requestId

\* C8: request(a, a) fails in every state and creates or deletes no request,
\* connection or notification.
C8_SelfRequestFails ==
  [][(Handled /\ resp'.op = "request"
      /\ resp'.requesterId = resp'.targetId) =>
       /\ resp'.status \in {400, 403}
       /\ UNCHANGED <<requests, connections, notifications>>]_vars

\* A self-request was refused while requests and a connection exist.
C8_Witness ==
  /\ resp.op = "request"
  /\ resp.caller = resp.requesterId
  /\ resp.requesterId = resp.targetId
  /\ resp.status = 400
  /\ requests # {}
  /\ connections # {}

MembersOf(roomId) == {m.user_id : m \in {m \in members : m.room_id = roomId}}

\* The stored conditions under which viewer is shown the contact of member.
Shown(roomId, viewer, member) ==
  \/ member = viewer
  \/ Connected(viewer, member)
  \/ users[member].auto_share_contact
  \/ \E p \in privacy :
       p.room_id = roomId /\ p.user_id = member /\ p.is_public

\* C2: for every room, viewer (signed in or not) and member, the wechat and qq
\* of the member in the room's member list are the stored values if the member
\* is the viewer, is connected to the viewer, has auto_share_contact, or is
\* public in this room; otherwise both are null whatever is stored.
C2_ContactVisibility ==
  (resp.op = "getRoom" /\ resp.status = 200) =>
    /\ {m.id : m \in resp.members} = MembersOf(resp.roomId)
    /\ \A m \in resp.members :
         IF Shown(resp.roomId, resp.caller, m.id)
         THEN m.wechat = users[m.id].wechat /\ m.qq = users[m.id].qq
         ELSE m.wechat = NULL /\ m.qq = NULL

\* A list that shows one member's contact (public in this room only, or
\* connected) and hides another's although it is stored.
C2_Witness ==
  /\ resp.op = "getRoom"
  /\ resp.status = 200
  /\ \E m \in resp.members :
       m.id # resp.caller /\ m.wechat # NULL
       /\ ~users[m.id].auto_share_contact
  /\ \E m \in resp.members : m.wechat = NULL /\ users[m.id].wechat # NULL

\* What the member list of roomId shows viewer about member.
Listed(roomId, viewer, member) ==
  {m \in UNION {c.h.members : c \in Run(GetRoomBegin(viewer, roomId), DB, now)} :
     m.id = member}

ShowsContact(roomId, viewer, member) ==
  /\ Listed(roomId, viewer, member) # {}
  /\ \A m \in Listed(roomId, viewer, member) :
       m.wechat = users[member].wechat /\ m.qq = users[member].qq

\* C6: once respond with accept = true on a pending request from X to Y has
\* succeeded, a connection row of the pair exists, areConnected holds in both
\* orders, and the member list of every room they share shows Y's wechat and
\* qq to X and X's to Y, also when neither shares automatically or is public.
C6_AcceptConnects ==
  (resp.op = "respond" /\ resp.status = 200 /\ resp.accept) =>
    LET X == resp.request.requester_id
        Y == resp.userId
    IN /\ resp.request.status = "pending"
       /\ resp.request.target_user_id = Y
       /\ Connected(X, Y)
       /\ are_connected(connections, X, Y)
       /\ are_connected(connections, Y, X)
       /\ \A r \in RoomIds :
            {X, Y} \subseteq MembersOf(r) =>
              ShowsContact(r, X, Y) /\ ShowsContact(r, Y, X)

\* An accepted request between two members of a room who share nothing by
\* themselves.
C6_Witness ==
  /\ resp.op = "respond"
  /\ resp.status = 200
  /\ resp.accept
  /\ \E r \in RoomIds : {resp.request.requester_id, resp.userId} \subseteq MembersOf(r)
  /\ \A u \in Users : ~users[u].auto_share_contact
  /\ \A p \in privacy : ~p.is_public
  /\ users[resp.userId].wechat # NULL
  /\ users[resp.request.requester_id].wechat # NULL

\* C1: in every state reached by joins through /rooms/join, /schedule/confirm
\* and /rutgers/join, by any users and with their store calls interleaved,
\* the member_count of each room is the number of its membership rows.
C1_MemberCount ==
  \A r \in rooms :
     r.member_count = Cardinality({m \in members : m.room_id = r.id})

\* Two joins of different users to one room were in flight together and both
\* succeeded.
C1_Witness ==
  /\ \A p \in Procs :
       procs[p].op = "join" /\ procs[p].pc = "done" /\ procs[p].status = 200
  /\ procs[1].userId # procs[2].userId
  /\ procs[1].path # procs[2].path
  /\ \E r \in rooms : r.member_count = 2 /\ Cardinality(MembersOf(r.id)) = 2

\* The tuple a stored room stands for, with the name and school of its course.
TupleOf(cs, r) ==
  LET c == CHOOSE c \in cs : c.id = r.course_id
  IN [name |-> c.name, school |-> c.school, semester_id |-> r.semester_id,
      day_of_week |-> r.day_of_week, start_time |-> r.start_time,
      end_time |-> r.end_time, professor |-> r.professor,
      classroom |-> r.classroom, weeks |-> r.weeks]

\* C9: with resolutions handled one after the other, every resolution returns
\* the id of the one room whose stored tuple (course name, school, semester,
\* day, start time, end time, instructor, location, weeks; times compared as
\* times of day) equals its own, rooms keep their tuple, and no two rooms and
\* no two courses have the same key: so two resolutions return the same id
\* exactly when their tuples agree in every field, empty instructor and
\* location included, and resolving a tuple again adds no Course or Room row.
C9_SameRoomIffSameTuple ==
  [][(Handled /\ resp'.op = "join") =>
       /\ resp'.status = 200 =>
            /\ Len(resp'.roomIds) = Len(resp'.todo)
            /\ \A k \in 1..Len(resp'.todo) :
                 \E r \in rooms' : /\ r.id = resp'.roomIds[k]
                                   /\ TupleOf(courses', r) = resp'.todo[k]
       /\ \A r1 \in rooms', r2 \in rooms' :
            (r1.id = r2.id \/ TupleOf(courses', r1) = TupleOf(courses', r2))
              => r1 = r2
       /\ \A c1 \in courses', c2 \in courses' :
            (c1.id = c2.id \/ (c1.name = c2.name /\ c1.school = c2.school))
              => c1 = c2
       /\ \A r \in rooms : \E r2 \in rooms' :
            r2.id = r.id /\ TupleOf(courses', r2) = TupleOf(courses, r)
       /\ \A k \in 1..Len(resp'.todo) :
            (\E r \in rooms : TupleOf(courses, r) = resp'.todo[k]) =>
              /\ resp'.status = 200
              /\ k = Len(resp'.todo) =>
                   Cardinality(rooms') = Cardinality(rooms)
                   /\ courses' = courses]_vars

\* Two rooms that differ in the weeks only, and a resolution that found the
\* room of a section without instructor and location again.
C9_Witness ==
  /\ \E r1 \in rooms, r2 \in rooms :
       /\ r1.id # r2.id
       /\ [TupleOf(courses, r1) EXCEPT !.weeks = ""]
            = [TupleOf(courses, r2) EXCEPT !.weeks = ""]
  /\ resp.op = "join"
  /\ resp.status = 200
  /\ \E r \in rooms : /\ r.id = resp.roomIds[1]
                      /\ r.professor = "" /\ r.classroom = ""
                      /\ r.member_count = 1
                      /\ r.id < Cardinality(rooms)

\* C10: a join of a user to a room the user is a member of already succeeds
\* and changes nothing: the membership rows and the member_count of the room
\* stay as they are and no notification about the room is created.
C10_RepeatedJoinIsNoOp ==
  [][(Handled /\ resp'.op = "join") =>
       \A r \in rooms :
          (/\ \E k \in 1..Len(resp'.todo) :
                TupleOf(courses, r) = resp'.todo[k]
           /\ resp'.userId \in MembersOf(r.id)) =>
            /\ resp'.status = 200
            /\ \E k \in 1..Len(resp'.roomIds) : resp'.roomIds[k] = r.id
            /\ {m \in members' : m.room_id = r.id}
                 = {m \in members : m.room_id = r.id}
            /\ r \in rooms'
            /\ {n \in notifications' : n.data.room_id = r.id}
                 = {n \in notifications : n.data.room_id = r.id}]_vars

\* User 2, who joined user 1's room through /schedule/confirm (user 1 was
\* told), joined it again through /rooms/join.
C10_Witness ==
  /\ resp.op = "join"
  /\ resp.path = "rooms"
  /\ resp.status = 200
  /\ resp.userId = 2
  /\ \E n \in notifications :
       /\ n.user_id = 1
       /\ n.type = "new_member"
       /\ n.data.room_id = resp.roomIds[1]
       /\ n.n = 1
  /\ \E r \in rooms : r.id = resp.roomIds[1] /\ r.member_count = 2

MembersIn(ms, roomId) == {m.user_id : m \in {m \in ms : m.room_id = roomId}}

\* C11 as stated: when a join makes a user a member of a room for the first
\* time, through any of the three join paths, exactly one new_member
\* notification is created for each other member of the room at that moment
\* and none for anyone else; a join into an empty room creates none.
C11_FirstJoinNotifiesOthers ==
  [][(Handled /\ resp'.op = "join" /\ resp'.status = 200) =>
       \A r \in rooms' :
          LET others == MembersIn(members, r.id) \ {resp'.userId}
              added == {n \in notifications' \ notifications :
                          n.type = "new_member" /\ n.data.room_id = r.id}
          IN IF /\ resp'.userId \in MembersIn(members', r.id)
                /\ resp'.userId \notin MembersIn(members, r.id)
             THEN /\ \A u \in others :
                       Cardinality({n \in added : n.user_id = u}) = 1
                  /\ \A n \in added : n.user_id \in others
             ELSE added = {}]_vars

\* The contactStatus of member m in a list made for viewer, with the
\* rejection shown while `within` holds of the time passed since it.
StatusAsOf(roomId, viewer, member, within(_)) ==
  IF Shown(roomId, viewer, member) THEN "visible"
  ELSE IF \E q \in SentBy(viewer, member) : q.status = "pending"
    THEN "pending"
  ELSE IF \E q \in SentBy(viewer, member) :
            q.status = "rejected" /\ within(now - q.responded_at)
    THEN "rejected"
  ELSE "hidden"

LessThanCooldown(passed) == passed < Cooldown

AtMostCooldown(passed) == passed <= Cooldown

\* C12 as stated: contactStatus is visible exactly when the contact is
\* visible; otherwise it is pending if the viewer's request to the member is
\* pending, rejected if that request was rejected less than the cooldown ago,
\* and hidden in every other case.
C12_AsStated ==
  [][(Handled /\ resp'.op = "getRoom" /\ resp'.status = 200) =>
       \A m \in resp'.members :
          m.contactStatus =
            StatusAsOf(resp'.roomId, resp'.caller, m.id, LessThanCooldown)]_vars

\* C12, amended: contactStatus is visible exactly when the contact is
\* visible; otherwise it is pending if the viewer's request to the member is
\* pending, rejected if that request was rejected at most the cooldown ago
\* (exactly one hour included), and hidden in every other case, including a
\* rejection more than the cooldown ago.
C12_ContactStatus ==
  [][(Handled /\ resp'.op = "getRoom" /\ resp'.status = 200) =>
       \A m \in resp'.members :
          m.contactStatus =
            StatusAsOf(resp'.roomId, resp'.caller, m.id, AtMostCooldown)]_vars

\* A list that shows a member as hidden again, the viewer's request having
\* been rejected longer ago than the cooldown.
C12_Witness ==
  /\ resp.op = "getRoom"
  /\ resp.status = 200
  /\ \E m \in resp.members :
       /\ m.contactStatus = "hidden"
       /\ \E q \in SentBy(resp.caller, m.id) : q.status = "rejected"

\* The tables the visibility decision reads.
Sharing ==
  [users |-> users, members |-> members, privacy |-> privacy,
   connections |-> connections]

\* The member list of roomId made for viewer in store d shows member's contact.
Visible(d, roomId, viewer, member) ==
  /\ member \in MembersIn(d.members, roomId)
  /\ canSeeContact(d, roomId, viewer, member)

\* The step handled a call that set member's auto_share_contact, or member's
\* is_public for roomId, to false.
Withdraws(h, roomId, member) ==
  \/ h.op = "autoshare" /\ h.userId = member /\ ~h.checked
  \/ h.op = "privacy" /\ h.userId = member /\ h.roomId = roomId /\ ~h.isPublic

Consumes(h) == h.op = "parse" /\ h.limit = NULL

Raised(h) == h.error = "Quota exceeded"

\* The counter after the lazy reset: the allowance once the stored reset_at
\* (none yet, or one not after now) is due, the stored counter before that.
AfterLazyReset(user, t) ==
  IF user.match_quota_reset_at = NoTime \/ user.match_quota_reset_at <= t
  THEN DAILY_QUOTA
  ELSE user.match_quota_remaining

\* C14: consume raises QuotaExceeded exactly when the caller is not
\* privileged and the remaining counter after the lazy reset is <= 0; a call
\* that raises leaves the user's counters as they were, and a privileged call
\* changes no row.
C14_QuotaExceeded ==
  [][(Handled /\ Consumes(resp')) =>
       LET user == users[resp'.caller]
       IN /\ Raised(resp') <=>
               (~resp'.isEdu /\ AfterLazyReset(user, now) <= 0)
          /\ Raised(resp') =>
               /\ resp'.status = 429
               /\ users'[resp'.caller].match_quota_remaining = user.match_quota_remaining
               /\ users'[resp'.caller].match_quota_reset_at = user.match_quota_reset_at
          /\ resp'.isEdu => users' = users]_vars

C14_Witness ==
  /\ Consumes(resp) /\ Raised(resp)
  /\ users[resp.caller].match_quota_remaining = 0
  /\ users[resp.caller].match_quota_reset_at > now

\* The first midnight after t.
NextMidnight(t) ==
  CHOOSE m \in {d * Day : d \in 0 .. MaxDays + 1} : m > t /\ m - Day <= t

\* C15: a successful consume by a non-privileged user stores the allowance
\* minus 1 when the stored reset_at is in the past and the stored counter
\* minus 1 when it is in the future, and the next UTC midnight as reset_at.
C15_ConsumeStores ==
  [][(Handled /\ Consumes(resp') /\ ~resp'.isEdu /\ ~Raised(resp')) =>
       LET old == users[resp'.caller]
           new == users'[resp'.caller]
       IN /\ (old.match_quota_reset_at # NoTime /\ old.match_quota_reset_at < now)
               => new.match_quota_remaining = DAILY_QUOTA - 1
          /\ old.match_quota_reset_at > now
               => new.match_quota_remaining = old.match_quota_remaining - 1
          /\ new.match_quota_reset_at = NextMidnight(now)]_vars

C15_Witness ==
  /\ Consumes(resp) /\ ~resp.isEdu /\ ~Raised(resp)
  /\ users[resp.caller].match_quota_remaining = 0
  /\ users[resp.caller].match_quota_reset_at = NextMidnight(now)
  /\ now > Day

\* The user a request, a response or a privacy setting is made for.
NamedUser(h) == IF h.op = "request" THEN h.requesterId ELSE h.userId

\* C16: a request, a response or a privacy setting whose caller is not the
\* user named in it is answered Forbidden, and no request, connection,
\* privacy setting or notification is created, changed or deleted.
C16_ForbiddenChangesNothing ==
  [][(/\ Handled
      /\ resp'.op \in {"request", "respond", "privacy"}
      /\ NamedUser(resp') # resp'.caller)
       => /\ resp'.status = 403
          /\ UNCHANGED <<requests, connections, privacy, notifications>>]_vars

C16_Witness ==
  /\ resp.op = "respond" /\ resp.status = 403
  /\ \E q \in requests :
       /\ q.id = resp.requestId /\ q.status = "pending"
       /\ q.target_user_id = resp.userId
  /\ privacy # {}

\* The limiters a parse request went through: the global one always, the
\* one of the route unless the global one answered.
Limiters(h) ==
  IF h.limit = GlobalLimit.keyPrefix THEN {GlobalLimit} ELSE {GlobalLimit, LlmLimit}

BucketOf(bs, key) == {b \in bs : b.key = key}

\* C17: per key, the request that finds no bucket or one whose resetAt is
\* not after now opens a window with count 1; within a window a request is
\* passed on and counted while the count is below max, so that no more than
\* max are passed; every further one is answered 429 and leaves the bucket
\* as it was.
C17_RateLimit ==
  [][(Handled /\ resp'.op = "parse") =>
       /\ \A o \in Limiters(resp') :
            LET key == getKey(resp'.ip, o.keyPrefix)
                old == BucketOf(buckets, key)
                new == BucketOf(buckets', key)
                passed == resp'.limit # o.keyPrefix
            IN /\ Cardinality(new) = 1
               /\ \A n \in new :
                    /\ n.count <= o.max
                    /\ IF old = {} \/ \E b \in old : b.resetAt <= now
                       THEN passed /\ n.count = 1 /\ n.resetAt = now + o.windowMs
                       ELSE \A b \in old :
                              IF b.count >= o.max
                              THEN ~passed /\ resp'.status = 429 /\ n = b
                              ELSE /\ passed
                                   /\ n.count = b.count + 1
                                   /\ n.resetAt = b.resetAt
       /\ \A b \in buckets :
            b.key \notin {getKey(resp'.ip, o.keyPrefix) : o \in Limiters(resp')}
              => b \in buckets']_vars

C17_Witness ==
  /\ resp.op = "parse" /\ resp.status = 429 /\ resp.limit = LlmLimit.keyPrefix
  /\ \E b \in buckets :
       /\ b.key = getKey(resp.ip, LlmLimit.keyPrefix)
       /\ b.count = LlmLimit.max
       /\ b.resetAt > now
  /\ \E b \in buckets : b.key = getKey("10.0.0.2", LlmLimit.keyPrefix)

\* The natural key of a room row: the columns of course_rooms_unique_section.
KeyOf(r) ==
  <<r.course_id, r.semester_id, r.day_of_week, r.start_time, r.end_time,
    r.professor, r.classroom, r.weeks>>

\* C18: however the callers that resolve the same tuple interleave, there
\* is at most one course row per (name, school) and at most one room row
\* per natural key.
C18_OneRowPerKey ==
  /\ \A c1 \in courses, c2 \in courses :
       (c1.name = c2.name /\ c1.school = c2.school) => c1 = c2
  /\ \A r1 \in rooms, r2 \in rooms : KeyOf(r1) = KeyOf(r2) => r1 = r2

\* Both callers found no room and one of them has inserted it.
C18_Witness ==
  /\ Cardinality(rooms) = 1
  /\ \E p \in Procs, q \in Procs :
       /\ p # q
       /\ procs[p].op = "join" /\ procs[p].pc = "room_insert"
       /\ procs[q].op = "join" /\ procs[q].room # NoId
       /\ procs[q].pc \in {"member_select", "member_insert"}

\* The handler in slot p is refused by the store at the insert it stands at.
Refused(p, at) ==
  /\ procs[p].op = "join" /\ procs[p].pc \in at
  /\ procs'[p].pc = "done" /\ procs'[p].status = 500

\* C19: a caller whose insert of the course or of the room hits the
\* uniqueness constraint fetches the row that is there and goes on to join
\* it; the conflict is never its reply.
C19_ConflictIsRefetched ==
  [][\A p \in Procs :
       LET h == procs[p]
           item == h.todo[h.i]
       IN /\ (/\ h.op = "join" /\ h.pc = "course_insert"
               /\ CourseRows(DB, item) # {}
               /\ procs'[p] # h)
                => /\ ~Refused(p, {"course_insert"})
                   /\ procs'[p].course \in {c.id : c \in CourseRows(DB, item)}
          /\ (/\ h.op = "join" /\ h.pc = "room_insert"
               /\ RoomRows(DB, h.course, item) # {}
               /\ procs'[p] # h)
                => /\ ~Refused(p, {"room_insert"})
                   /\ procs'[p].room \in {r.id : r \in RoomRows(DB, h.course, item)}]_vars

\* C20: when the same user joins the same room twice at once, both lookups
\* coming before either insert, the insert that comes second leaves the one
\* membership row of the pair and the member_count as they are, and its
\* call succeeds like the first.
C20_ConcurrentSameJoin ==
  [][\A p \in Procs :
       LET h == procs[p]
       IN (/\ h.op = "join" /\ h.pc = "member_insert"
           /\ MemberRows(DB, h.room, h.userId) # {}
           /\ procs'[p] # h)
            => /\ Cardinality(MemberRows(DB', h.room, h.userId)) = 1
               /\ rooms' = rooms
               /\ ~Refused(p, {"member_insert"})]_vars

\* C21: there is at most one request row per ordered pair; a successful
\* request from a to b removes the earlier row from a to b and leaves one
\* row for the pair, pending and with no responded_at, and leaves the rows
\* from b to a as they were.
C21_OneRequestPerOrderedPair ==
  [][/\ \A q1 \in requests', q2 \in requests' :
          (q1.requester_id = q2.requester_id
           /\ q1.target_user_id = q2.target_user_id) => q1 = q2
     /\ (Handled /\ resp'.op = "request" /\ resp'.status = 200) =>
          LET a == resp'.requesterId
              b == resp'.targetId
          IN /\ RequestRows(requests', a, b) =
                  {[id |-> resp'.request, requester_id |-> a,
                    target_user_id |-> b, status |-> "pending",
                    responded_at |-> NoTime]}
             /\ \A q \in RequestRows(requests, a, b) :
                  q.id \notin {x.id : x \in requests'}
             /\ RequestRows(requests', b, a) = RequestRows(requests, b, a)]_vars

\* A request has replaced the rejected one of the same pair, while a row of
\* the opposite direction is there.
C21_Witness ==
  /\ resp.op = "request" /\ resp.status = 200
  /\ \E n \in notifications :
       /\ n.type = "contact_rejected" /\ n.user_id = resp.requesterId
       /\ n.data.target_id = resp.targetId
       /\ n.data.request_id \notin {q.id : q \in requests}
  /\ \E q \in RequestRows(requests, resp.requesterId, resp.targetId) :
       q.id = resp.request /\ q.status = "pending"
  /\ RequestRows(requests, resp.targetId, resp.requesterId) # {}

\* C22: every connection row has user_id_1 < user_id_2, and there is at most
\* one connection row per unordered pair of users, whichever of the two sent
\* the request.
C22_CanonicalConnections ==
  /\ \A c \in connections : c.user_id_1 < c.user_id_2
  /\ \A c1 \in connections, c2 \in connections :
       {c1.user_id_1, c1.user_id_2} = {c2.user_id_1, c2.user_id_2} => c1 = c2

\* Requests of both directions were accepted, one of them sent by the user
\* with the greater id.
C22_Witness ==
  /\ connections # {}
  /\ \E q1 \in requests, q2 \in requests :
       /\ q1.status = "accepted" /\ q2.status = "accepted"
       /\ q1.requester_id > q1.target_user_id
       /\ q2.requester_id < q2.target_user_id

\* The connection rows of the two users of a request.
RowsOfPair(conns, q) ==
  {c \in conns : {c.user_id_1, c.user_id_2} = {q.requester_id, q.target_user_id}}

\* C23: an accepting response leaves exactly one connection row for the
\* pair and returns success, also when the request of the opposite direction
\* was accepted before it or is being accepted at the same time.
C23_MutualAccept ==
  [][\A p \in Procs :
       LET h == procs[p]
       IN /\ (h.op = "respond" /\ h.pc = "connect" /\ procs'[p] # h)
               => /\ procs'[p].pc = "respond_notify"
                  /\ Cardinality(RowsOfPair(connections', h.request)) = 1
          /\ (h.op = "respond" /\ h.pc = "respond_notify" /\ procs'[p] # h)
               => procs'[p].status = 200]_vars

\* Two accepting responses to requests of opposite directions, both past
\* the insert of the connection at the same time.
C23_Witness ==
  /\ \A p \in Procs :
       /\ procs[p].op = "respond" /\ procs[p].accept
       /\ procs[p].pc \in {"respond_notify", "done"}
       /\ procs[p].pc = "done" => procs[p].status = 200
  /\ procs[1].request.requester_id = procs[2].request.target_user_id
  /\ procs[1].request.target_user_id = procs[2].request.requester_id
  /\ Cardinality(connections) = 1

\* C24: between responses, a request with status accepted has the connection
\* row of its two users: the status update and the insert of the connection
\* take effect together or not at all, whatever error the insert meets.
C24_AcceptedImpliesConnected ==
  \A q \in requests :
     q.status = "accepted"
       => are_connected(connections, q.requester_id, q.target_user_id)

\* The failing call f lies on the path of the request h, as far as the store
\* before the request decides it.
Reaches(h, f) ==
  LET request == h.op = "request" /\ h.caller = h.requesterId
                 /\ h.requesterId # h.targetId
      unconnected == request
                     /\ ~are_connected(connections, h.requesterId, h.targetId)
      allowed == unconnected
                 /\ can_request_contact(DB, now, h.requesterId, h.targetId)
      respond == h.op = "respond" /\ h.caller = h.userId
      matched == respond
                 /\ RespondMatch(requests, h.requestId, h.userId) # {}
      listing == h.op = "getRoom" /\ h.roomId \in RoomIds
  IN CASE f = "are_connected" -> request
       [] f = "can_request" -> unconnected
       [] f \in {"delete", "insert"} -> allowed
       [] f = "fetch" -> respond
       [] f = "update" -> matched
       [] f = "connect" -> matched /\ h.accept
       [] f = "room_detail" -> h.op = "getRoom"
       [] f = "room_privacy" -> listing
       [] f \in {"room_connections", "room_requests"} ->
            listing /\ h.caller # NoUser
       [] OTHER -> FALSE

\* C29: a request, a response or a member listing that meets a failing store
\* call other than the insert of a notification returns a 5xx error; the
\* failed lookup is never taken for an empty or false result.
C29_StoreFailuresPropagate ==
  [][Handled =>
       \A f \in faults \ {"request_notify", "respond_notify"} :
          Reaches(resp', f) => resp'.status >= 500]_vars

\* The requests a contact_request notification has announced to its target.
Announced(ns, target) ==
  {n.data.request_id : n \in {n \in ns : n.type = "contact_request"
                                         /\ n.user_id = target}}

\* C25: the delete step of a request never removes a pending row: a pending
\* request that was announced to its target stays respondable by the target
\* until the target responds to it.
C25_AnnouncedStaysRespondable ==
  [][/\ \A p \in Procs :
          (procs[p].op = "request" /\ procs[p].pc = "delete")
            => \A q \in requests \ requests' : q.status # "pending"
     /\ \A q \in requests :
          (q.status = "pending"
           /\ q.id \in Announced(notifications, q.target_user_id))
            => \/ RespondMatch(requests', q.id, q.target_user_id) # {}
               \/ \E p \in Procs :
                    /\ procs[p].op = "respond" /\ procs[p].pc = "update"
                    /\ procs[p].requestId = q.id]_vars

\* C26: while two users are connected, no request between them, in either
\* direction, is pending.
C26_ConnectedHasNoPending ==
  \A q \in requests :
     are_connected(connections, q.requester_id, q.target_user_id)
       => q.status # "pending"

\* C27: a membership row that /schedule/confirm inserts into a room holding
\* at that moment a membership of another user is followed by the member
\* query and by a new_member notification to every such user, whatever
\* member_count the handler read with the room.
C27_ConfirmNotifiesPresentMembers ==
  [][\A p \in Procs :
       LET h == procs[p]
           others == MembersIn(members, h.room) \ {h.userId}
       IN /\ (/\ h.op = "join" /\ h.path = "confirm" /\ h.pc = "member_insert"
              /\ h.userId \in MembersIn(members', h.room) \ MembersIn(members, h.room)
              /\ others # {})
               => procs'[p].pc = "members_query"
          /\ (/\ h.op = "join" /\ h.path = "confirm" /\ h.pc = "members_notify"
              /\ procs'[p] # h)
               => \A u \in h.recipients :
                    \E n \in notifications' \ notifications :
                       /\ n.user_id = u /\ n.type = "new_member"
                       /\ n.data.room_id = h.room]_vars

\* The rooms the tuples of a confirm request resolve to.
Targets(h) ==
  {r \in rooms : \E i \in 1 .. Len(h.todo) : \E c \in CourseRows(DB, h.todo[i]) :
                   r \in RoomRows(DB, c.id, h.todo[i])}

\* C30: when the member query or the notification insert of the fan-out
\* fails, the membership row just inserted and the increment of member_count
\* are kept, and the join is reported as successful.
C30_FanoutFailureKeepsJoin ==
  [][(/\ Handled
      /\ resp'.op = "join" /\ resp'.path = "confirm"
      /\ faults \cap FanoutFaults # {})
       => \A r \in Targets(resp') :
             (/\ resp'.userId \notin MembersIn(members, r.id)
              /\ MembersIn(members, r.id) # {})
               => /\ resp'.status = 200
                  /\ resp'.userId \in MembersIn(members', r.id)
                  /\ \E r2 \in rooms' :
                       r2.id = r.id /\ r2.member_count = r.member_count + 1]_vars

C30_Witness ==
  /\ resp.op = "join" /\ resp.path = "confirm" /\ resp.status = 200
  /\ faults \cap FanoutFaults # {}
  /\ resp.member_count > 0
  /\ Cardinality(MembersIn(members, resp.room)) = 2
  /\ resp.userId \in MembersIn(members, resp.room)
  /\ notifications = {}

\* C28: however the consume calls of a user interleave, no more calls
\* succeed between two resets of the counter than the daily allowance, and
\* the stored counter is never negative.  From the first parse of a day to
\* midnight there is no reset, and every parse the provider answered has
\* consumed one unit.
C28_AllowanceHolds ==
  /\ llmCalls <= DAILY_QUOTA
  /\ \A u \in Users : users[u].match_quota_remaining >= 0
====
